---- MODULE Spec2Model ----
(***************************************************************************)
(* A model of the Riemann/InfluxDB polling scripts: disk-monitor.py,       *)
(* disk-monitor-fixed.py, system-monitor.py, graphrag-monitor.py,          *)
(* influxdb-bridge.py, backup-data-forwarder.py and monitor.py.            *)
(*                                                                         *)
(* Every script is a loop "collect, send, sleep".  One run of a script is  *)
(* one behaviour: Init picks the script, and an action is one step of its  *)
(* loop (one collector call, one POST, one sleep).  What the outside world *)
(* answers (disk sizes, HTTP statuses, tool output, raised exceptions) is  *)
(* drawn from small sets.                                                  *)
(*                                                                         *)
(* Numbers that are floats in the scripts are kept exact: a quotient a/b   *)
(* is the pair <<a, b>>, and a comparison with a decimal literal is done   *)
(* by cross-multiplication.  For the byte counts of the model this agrees  *)
(* with IEEE double arithmetic: Python's int/int division is correctly     *)
(* rounded, so a quotient that is exactly 0.8 or 0.9 yields the same       *)
(* double as the literal, and a quotient below it by at least 1/(10*total) *)
(* yields a smaller double whenever total < 2^50.                          *)
(***************************************************************************)
EXTENDS Integers, Sequences, FiniteSets, TLC

VARIABLES
    script,     \* which script this run executes
    pc,         \* position of main: "startup", "tick", "sleep", "blocked", "stopped" (Ctrl-C), "returned"
    idx,        \* index of the next collector call of the current tick
    invoked,    \* collectors called so far in the current tick
    world,      \* what the outside world did during the last collector call
    events,     \* calls of send_to_riemann / client.event made by the last collector call
    exc,        \* what the last finished tick raised to the loop: "none", "Exception", "KeyboardInterrupt"
    delay,      \* argument of the time.sleep the loop is in (0 when not sleeping)
    failedAt,   \* collector whose exception left the current tick ("" if none)
    total,      \* shutil.disk_usage('/').total of the last disk sample
    used,       \* shutil.disk_usage('/').used of the last disk sample
    line,       \* influxdb-bridge: index of the line send_test_events sends next (0: none)
    posts,      \* POSTs to the InfluxDB write endpoint made in the current pass
    sent,       \* result of the last send_to_influxdb call
    failRun,    \* consecutive send_to_influxdb calls that returned False, up to now
    idle,       \* seconds of time.sleep since the last send_to_influxdb call
    now,        \* backup-data-forwarder: the clock, in seconds since the run began
    store,      \* timestamps of the backup.* points held by the local InfluxDB
    batch,      \* `metrics` of the last query (timestamps, newest first)
    fwd,        \* send_to_external_influxdb of the current pass: where it is, what it did
    delivered,  \* pairs <<point, endpoint>>: the write endpoint answered 204 to a POST carrying the point
    again,      \* pairs <<point, endpoint>> POSTed in a pass after one in which the endpoint accepted the point
    tries,      \* POSTs of the payload of `batch` to write endpoints, over the consecutive passes that fetched it
    passes,     \* consecutive passes whose query returned `batch`
    errors,     \* passes that ended in the except Exception handler of main
    rawName,    \* `service` of the last riemann_event_to_influx_line call, as a sequence of characters
    measurement, \* the measurement name of the line that call returned
    stamps      \* timestamps carried by the samples built so far in this pass by send_test_events, the body
                \* of monitor.py or get_system_metrics, counted from the moment the pass began

loopVars == <<script, pc, idx, invoked, world, events, exc, delay, failedAt>>
diskVars == <<total, used>>
sinkVars == <<line, posts, sent, failRun, idle>>
backupVars == <<now, store, batch, fwd, delivered, again, tries, passes, errors>>
sampleVars == <<rawName, measurement, stamps>>
vars == <<script, pc, idx, invoked, world, events, exc, delay, failedAt, total, used,
          line, posts, sent, failRun, idle,
          now, store, batch, fwd, delivered, again, tries, passes, errors,
          rawName, measurement, stamps>>

----------------------------------------------------------------------------
(* Events *)

\* One call of send_to_riemann(service, metric, state); the metric is the
\* exact quotient <<num, den>>.
Ev(service, metric, state) ==
    [service |-> service, metric |-> metric, state |-> state]

\* a <= b for exact quotients with positive denominators
FracGeq(a, b) == a[1] * b[2] >= b[1] * a[2]

----------------------------------------------------------------------------
(* disk-monitor.py and disk-monitor-fixed.py *)

\* usage_percent = used / total if total > 0 else 0
UsagePercent(u, t) == IF t > 0 THEN <<u, t>> ELSE <<0, 1>>

ClassifyStrict(usage_percent) ==
    IF usage_percent[1] * 100 > 90 * usage_percent[2] THEN "critical"
    ELSE IF usage_percent[1] * 100 > 80 * usage_percent[2] THEN "warning"
    ELSE "ok"

\* if usage_percent >= 0.90: critical / elif usage_percent >= 0.80: warning / else ok
Classify(usage_percent) ==
    IF usage_percent[1] * 100 >= 90 * usage_percent[2] THEN "critical"
    ELSE IF usage_percent[1] * 100 >= 80 * usage_percent[2] THEN "warning"
    ELSE "ok"

\* the same three lines as they stand in disk-monitor-fixed.py
ClassifyFixed(usage_percent) ==
    IF usage_percent[1] * 100 >= 90 * usage_percent[2] THEN "critical"
    ELSE IF usage_percent[1] * 100 >= 80 * usage_percent[2] THEN "warning"
    ELSE "ok"

\* bytes / (1024**3), kept exact
Gb(bytes) == <<bytes, 1024 * 1024 * 1024>>

\* What a collector call gives back to the loop: the events it emitted and
\* what it raised ("none" when it returned).
Result(evs, raised) == [events |-> evs, raises |-> raised]

Interrupt == "KeyboardInterrupt"

\* A call without a timeout whose other side never answers: the collector
\* neither returns nor raises.
Hang == "hang"

\* What shutil.disk_usage('/') does: it returns (total, used, free) in
\* bytes (outcome "ok"), raises OSError, or Ctrl-C arrives; and, for
\* disk-monitor-fixed.py, the connection to Riemann is refused before it.
DiskEnvs(totals, useds) ==
    UNION {{[outcome |-> "ok", total |-> t, used |-> u] : u \in {x \in useds : x <= t}} : t \in totals}
    \cup {[outcome |-> o, total |-> 0, used |-> 0] : o \in {"OSError", "ConnectionRefused", Interrupt}}

\* get_disk_usage of disk-monitor.py: the calls of send_to_riemann it makes.
\* (send_to_riemann itself swallows every exception of its socket calls.)
get_disk_usage(env) ==
    CASE env.outcome = Interrupt -> Result(<< >>, Interrupt)
      [] env.outcome = "OSError" ->
            Result(<< Ev("disk.root.error", <<1, 1>>, "critical") >>, "none")
      [] OTHER ->
            Result(<< Ev("disk.root.usage.percent", UsagePercent(env.used, env.total),
                         Classify(UsagePercent(env.used, env.total))),
                      Ev("disk.root.free.gb", Gb(env.total - env.used), "ok"),
                      Ev("disk.root.used.gb", Gb(env.used), "ok"),
                      Ev("disk.root.total.gb", Gb(env.total), "ok") >>, "none")

\* get_disk_usage of disk-monitor-fixed.py: the calls of client.event.
get_disk_usage_fixed(env) ==
    CASE env.outcome = Interrupt -> Result(<< >>, Interrupt)
      [] env.outcome \in {"OSError", "ConnectionRefused"} -> Result(<< >>, "none")
      [] OTHER ->
            Result(<< Ev("disk.root.usage.percent", UsagePercent(env.used, env.total),
                         ClassifyFixed(UsagePercent(env.used, env.total))),
                      Ev("disk.root.free.gb", Gb(env.total - env.used), "ok") >>, "none")

----------------------------------------------------------------------------
(* system-monitor.py: the collectors *)

MaxRows == 3

\* psutil readings, in percent
Percents == {0, 42, 100}

SeqsUpTo(S, n) == UNION {[1..k -> S] : k \in 0..n}

RECURSIVE Flatten(_)
Flatten(ss) == IF ss = << >> THEN << >> ELSE Head(ss) \o Flatten(Tail(ss))

\* psutil.disk_partitions() of the model, and disk_name for each mountpoint:
\* '/' becomes 'root', any other mountpoint has '/' replaced by '_'.
Mounts == <<"/", "/data">>
DiskName(mountpoint) == IF mountpoint = "/" THEN "root" ELSE "_data"

\* The psutil calls of get_system_metrics that stand outside every try.
SystemFaultPoints == <<"cpu_percent", "virtual_memory", "disk_partitions", "getloadavg", "net_io_counters">>

\* What the psutil calls do: which one raises (failAt), what it raises
\* (kind), which psutil.disk_usage calls fail (disks), what is read.
SystemEnvs ==
    [failAt : {"none"}, kind : {"none"},
     disks : SeqsUpTo({"ok", "error"}, Len(Mounts)), reading : Percents]
    \cup
    [failAt : {"cpu_percent", "virtual_memory", "disk_partitions", "getloadavg", "net_io_counters"},
     kind : {"Exception", "KeyboardInterrupt"},
     disks : {<<"ok", "error">>}, reading : {42}]

\* The events get_system_metrics emits between the psutil call before
\* `point` and the psutil call `point` ("end": after the last call).
SystemBlock(point, env) ==
    CASE point = "cpu_percent" -> << >>
      [] point = "virtual_memory" -> << Ev("cpu", <<env.reading, 100>>, "ok") >>
      [] point = "disk_partitions" ->
            << Ev("memory", <<env.reading, 100>>, "ok"),
               Ev("memory available", <<env.reading, 1>>, "ok"),
               Ev("memory used", <<env.reading, 1>>, "ok") >>
      [] point = "getloadavg" ->
            \* for disk in psutil.disk_partitions(): try ... except: continue
            Flatten([i \in 1..Len(env.disks) |->
                IF env.disks[i] = "ok"
                THEN << Ev("disk " \o DiskName(Mounts[i]), <<env.reading, 100>>, "ok"),
                        Ev("disk " \o DiskName(Mounts[i]) \o " free", <<env.reading, 1>>, "ok"),
                        Ev("disk " \o DiskName(Mounts[i]) \o " used", <<env.reading, 1>>, "ok") >>
                ELSE << >>])
      [] point = "net_io_counters" ->
            << Ev("load", <<env.reading, 100>>, "ok"),
               Ev("load 5min", <<env.reading, 100>>, "ok"),
               Ev("load 15min", <<env.reading, 100>>, "ok") >>
      [] OTHER ->
            << Ev("network bytes sent", <<env.reading, 1>>, "ok"),
               Ev("network bytes recv", <<env.reading, 1>>, "ok") >>

FaultIndex(point) == CHOOSE i \in 1..Len(SystemFaultPoints) : SystemFaultPoints[i] = point

\* get_system_metrics: no try around the psutil calls, so the first one that
\* raises ends the function with the events emitted so far.
get_system_metrics(env) ==
    IF env.failAt = "none"
    THEN Result(Flatten([i \in 1..(Len(SystemFaultPoints) + 1) |->
                    SystemBlock(IF i <= Len(SystemFaultPoints) THEN SystemFaultPoints[i] ELSE "end", env)]),
                "none")
    ELSE Result(Flatten([i \in 1..FaultIndex(env.failAt) |-> SystemBlock(SystemFaultPoints[i], env)]),
                env.kind)

\* What an HTTP request can do: answer with a status, raise a
\* requests exception, or be interrupted by Ctrl-C.
HttpStatuses == {200, 204, 401, 500}
HttpErrors == {"ConnectionError", "Timeout"}
Response(status) == [error |-> "none", status |-> status]
Raised(error) == [error |-> error, status |-> 0]
HttpAnswers == {Response(st) : st \in HttpStatuses} \cup {Raised(e) : e \in HttpErrors}
HttpOutcomes == HttpAnswers \cup {Raised(Interrupt)}

\* Container names of the model's docker output, by row.
ContainerName(i) == "c" \o ToString(i)

\* One row of `docker ps`, after the header:
\*   "blank"  an empty line          "short"  a line without a tab
\*   "exited" a container not Up     "up-..." a container that is Up, with
\*   what `docker stats <name>` then does: "cpu" a parseable CPU column,
\*   "badcpu" an unparseable one, "norows" only the header, "fail" a
\*   non-zero return code, "raise" the call raised or was interrupted.
DockerRowKinds == {"blank", "short", "exited", "up-cpu", "up-badcpu", "up-norows", "up-fail", "up-raise"}

\* `docker ps`: not installed, non-zero return code, Ctrl-C, or its rows
DockerEnvs ==
    [ps : {"ok"}, rows : SeqsUpTo(DockerRowKinds, MaxRows - 1), reading : {42}]
    \cup [ps : {"missing", "fail", Interrupt, Hang}, rows : {<< >>}, reading : {42}]

DockerRowEvents(kind, name, reading) ==
    CASE kind \in {"blank", "short"} -> << >>
      [] kind = "exited" -> << Ev("docker " \o name, <<0, 1>>, "down") >>
      [] kind = "up-cpu" -> << Ev("docker " \o name, <<1, 1>>, "ok"),
                               Ev("docker " \o name \o " cpu", <<reading, 100>>, "ok") >>
      [] OTHER -> << Ev("docker " \o name, <<1, 1>>, "ok") >>

\* get_docker_metrics: everything is inside try / except Exception, the
\* stats call and the float() inside bare excepts.
get_docker_metrics(env) ==
    CASE env.ps \in {Interrupt, Hang} -> Result(<< >>, env.ps)
      [] env.ps \in {"missing", "fail"} -> Result(<< >>, "none")
      [] OTHER -> Result(Flatten([i \in 1..Len(env.rows) |->
                            DockerRowEvents(env.rows[i], ContainerName(i), env.reading)]), "none")

PostgresEnvs ==
    [isready : {"up"}, psql : {"count", "badint", "fail", "raise"}, reading : {42}]
    \cup [isready : {"missing", "down", Interrupt, Hang}, psql : {"none"}, reading : {42}]

\* get_postgres_metrics: pg_isready inside try / except Exception, psql and
\* int() inside a bare except.
get_postgres_metrics(env) ==
    CASE env.isready \in {Interrupt, Hang} -> Result(<< >>, env.isready)
      [] env.isready = "missing" -> Result(<< >>, "none")
      [] env.isready = "down" -> Result(<< Ev("postgres status", <<0, 1>>, "down") >>, "none")
      [] OTHER -> Result(<< Ev("postgres status", <<1, 1>>, "ok") >> \o
                         (IF env.psql = "count"
                          THEN << Ev("postgres connections", <<env.reading, 1>>, "ok") >>
                          ELSE << >>), "none")

ProbeEnvs == [http : HttpOutcomes, reading : {42}]

\* get_alfresco_metrics
get_alfresco_metrics(env) ==
    CASE env.http.error = Interrupt -> Result(<< >>, Interrupt)
      [] env.http.status = 200 -> Result(<< Ev("alfresco status", <<1, 1>>, "ok"),
                                     Ev("alfresco response-time", <<env.reading, 1>>, "ok") >>, "none")
      [] env.http.error \in HttpErrors -> Result(<< Ev("alfresco status", <<0, 1>>, "down") >>, "none")
      [] OTHER -> Result(<< Ev("alfresco status", <<0, 1>>, "down") >>, "none")

----------------------------------------------------------------------------
(* graphrag-monitor.py: the collectors *)

\* the answer to /api/version, whether its body is JSON, and what the
\* request of /api/tags does
OllamaEnvs ==
    [http : {Response(200)}, json : {"object"}, tags : {"models", "invalid", "not200", "raise"}, reading : {42}]
    \cup [http : {Response(200)}, json : {"invalid"}, tags : {"none"}, reading : {42}]
    \cup [http : HttpOutcomes \ {Response(200)}, json : {"none"}, tags : {"none"}, reading : {42}]

\* monitor_ollama: response.json() of the version answer is inside the
\* outer try, the /api/tags request inside a bare except.
monitor_ollama(env) ==
    CASE env.http.error = Interrupt -> Result(<< >>, Interrupt)
      [] env.http.status = 200 ->
            Result(<< Ev("ollama status", <<1, 1>>, "ok"),
                      Ev("ollama response-time", <<env.reading, 1>>, "ok") >> \o
                   (IF env.json = "invalid"
                    THEN << Ev("ollama status", <<0, 1>>, "critical") >>
                    ELSE IF env.tags = "models"
                         THEN << Ev("ollama models-count", <<env.reading, 1>>, "ok") >>
                         ELSE << >>), "none")
      [] env.http.error \in HttpErrors -> Result(<< Ev("ollama status", <<0, 1>>, "critical") >>, "none")
      [] OTHER -> Result(<< Ev("ollama status", <<0, 1>>, "critical") >>, "none")

\* monitor_graphrag
monitor_graphrag(env) ==
    CASE env.http.error = Interrupt -> Result(<< >>, Interrupt)
      [] env.http.status = 200 -> Result(<< Ev("graphrag status", <<1, 1>>, "ok"),
                                     Ev("graphrag response-time", <<env.reading, 1>>, "ok") >>, "none")
      [] env.http.error \in HttpErrors -> Result(<< Ev("graphrag status", <<0, 1>>, "critical") >>, "none")
      [] OTHER -> Result(<< Ev("graphrag status", <<0, 1>>, "warning") >>, "none")

\* One row of `docker stats`, after the header:
\*   "good"    a graphrag/riemann container, numbers parse, memory in GiB
\*   "goodMiB" the same with memory in MiB (no memory-bytes sample)
\*   "other"   a container whose name has neither graphrag nor riemann
\*   "short"   fewer than 4 columns      "blank"  an empty line
\*   "badnum"  the CPU or memory percentage is not a number
\*   "badGiB"  the percentages parse, the GiB figure does not
ContainerRowKinds == {"good", "goodMiB", "other", "short", "blank", "badnum", "badGiB"}

\* name of the container of row i: the filter
\* 'graphrag' in name.lower() or 'riemann' in name.lower() holds for every
\* kind but "other".
StatsName(kind, i) == IF kind = "other" THEN "postgres-" \o ToString(i) ELSE "GraphRAG-" \o ToString(i)

ContainerEnvs ==
    [stats : {"ok"}, rows : SeqsUpTo(ContainerRowKinds, MaxRows), reading : {42}]
    \cup [stats : {"missing", "fail", Interrupt, Hang}, rows : {<< >>}, reading : {42}]

\* the samples of a row of monitor_containers whose numbers all parse
\* (its memory column reads "1GiB / 8GiB")
ContainerGoodEvents(name, reading) ==
    << Ev("container " \o name \o " cpu", <<reading, 100>>, "ok"),
       Ev("container " \o name \o " memory", <<reading, 100>>, "ok"),
       Ev("container " \o name \o " memory-bytes", <<1024 * 1024 * 1024, 1>>, "ok") >>

ContainerRowEvents(kind, name, reading) ==
    CASE kind = "good" -> ContainerGoodEvents(name, reading)
      [] kind \in {"goodMiB", "badGiB"} -> SubSeq(ContainerGoodEvents(name, reading), 1, 2)
      [] OTHER -> << >>

\* monitor_containers: the parsing of each row is inside its own
\* try / except Exception, so a bad row ends only that row.
monitor_containers(env) ==
    CASE env.stats \in {Interrupt, Hang} -> Result(<< >>, env.stats)
      [] env.stats \in {"missing", "fail"} -> Result(<< >>, "none")
      [] OTHER -> Result(Flatten([i \in 1..Len(env.rows) |->
                            ContainerRowEvents(env.rows[i], StatsName(env.rows[i], i), env.reading)]), "none")

\* One line of the nvidia-smi CSV:
\*   "good"  four numbers      "zeroTotal"  four numbers, memory.total 0
\*   "short" fewer than 4 fields (also the empty output)
\*   "bad"   4 fields of which one is not a number, e.g. "[N/A]"
GpuRowKinds == {"good", "zeroTotal", "short", "bad"}

GpuEnvs ==
    [smi : {"ok"}, rows : SeqsUpTo(GpuRowKinds, MaxRows), reading : {42}]
    \cup [smi : {"missing", "fail", Interrupt, Hang}, rows : {<< >>}, reading : {42}]

\* the samples of line i (enumerate counts from 0) of monitor_gpu
GpuRowEvents(kind, i, reading) ==
    IF kind \in {"good", "zeroTotal"}
    THEN << Ev("gpu " \o ToString(i - 1) \o " utilization", <<reading, 100>>, "ok"),
            Ev("gpu " \o ToString(i - 1) \o " memory-used", <<reading * 1024 * 1024, 1>>, "ok"),
            Ev("gpu " \o ToString(i - 1) \o " memory-total",
               <<(IF kind = "good" THEN 100 ELSE 0) * 1024 * 1024, 1>>, "ok"),
            Ev("gpu " \o ToString(i - 1) \o " temperature", <<reading, 1>>, "ok"),
            Ev("gpu " \o ToString(i - 1) \o " memory-percent",
               IF kind = "good" THEN <<reading * 1024 * 1024, 100 * 1024 * 1024>> ELSE <<0, 1>>, "ok") >>
    ELSE << >>

\* index of the first line whose float() raises, Len + 1 if there is none
FirstBad(rows) ==
    IF \E i \in 1..Len(rows) : rows[i] = "bad"
    THEN CHOOSE i \in 1..Len(rows) : rows[i] = "bad" /\ \A j \in 1..(i - 1) : rows[j] # "bad"
    ELSE Len(rows) + 1

\* monitor_gpu without its two except clauses
monitor_gpu_unguarded(env) ==
    CASE env.smi \in {Interrupt, Hang} -> Result(<< >>, env.smi)
      [] env.smi = "missing" -> Result(<< >>, "Exception")
      [] env.smi = "fail" -> Result(<< >>, "none")
      [] OTHER -> Result(Flatten([i \in 1..(FirstBad(env.rows) - 1) |->
                            GpuRowEvents(env.rows[i], i, env.reading)]),
                         IF FirstBad(env.rows) <= Len(env.rows) THEN "Exception" ELSE "none")

\* monitor_gpu: the float() calls are inside the outer try only, so the
\* first line that does not parse ends the loop over the lines.
monitor_gpu(env) ==
    CASE env.smi \in {Interrupt, Hang} -> Result(<< >>, env.smi)
      [] env.smi \in {"missing", "fail"} -> Result(<< >>, "none")
      [] OTHER -> Result(Flatten([i \in 1..(FirstBad(env.rows) - 1) |->
                            GpuRowEvents(env.rows[i], i, env.reading)]), "none")

----------------------------------------------------------------------------
(* The main loops *)

Scripts == {"disk-monitor", "disk-monitor-fixed", "system-monitor", "graphrag-monitor",
            "influxdb-bridge", "monitor", "backup-data-forwarder"}

\* the collector calls of one pass of the loop body, in order
Collectors(s) ==
    CASE s = "system-monitor" ->
            <<"get_system_metrics", "get_docker_metrics", "get_postgres_metrics", "get_alfresco_metrics">>
      [] s = "graphrag-monitor" ->
            <<"monitor_ollama", "monitor_graphrag", "monitor_containers", "monitor_gpu">>
      [] s = "influxdb-bridge" -> <<"send_test_events">>
      [] s = "monitor" -> <<"loop body">>
      [] s = "backup-data-forwarder" -> <<"get_local_backup_metrics", "send_to_external_influxdb">>
      [] OTHER -> <<"get_disk_usage">>

\* time.sleep at the end of a pass of the loop body
Period(s) ==
    CASE s \in {"system-monitor", "graphrag-monitor"} -> 30
      [] s \in {"influxdb-bridge", "monitor"} -> 10
      [] s = "backup-data-forwarder" -> 300
      [] OTHER -> 60

\* time.sleep in the loop's except Exception handler
\* (monitor.py: the sleep that follows the try statement)
ErrorDelay(s) ==
    CASE s \in {"system-monitor", "graphrag-monitor"} -> 30
      [] s \in {"influxdb-bridge", "monitor"} -> 10
      [] s = "backup-data-forwarder" -> 60
      [] OTHER -> 0

MainCatchesNothing(s, kind) == FALSE

\* The handlers around the loop body: `except Exception` in the main of
\* system-monitor.py, graphrag-monitor.py, influxdb-bridge.py and
\* backup-data-forwarder.py and in the loop of monitor.py; the loops of the
\* two disk scripts have no try.  KeyboardInterrupt ends the loop
\* everywhere (by `break` or uncaught).
MainCatches(s, kind) ==
    kind = "Exception" /\ s \in {"system-monitor", "graphrag-monitor", "influxdb-bridge",
                                 "monitor", "backup-data-forwarder"}

\* an exception of kind `kind` leaves collector `name` and reaches the loop;
\* a call that hangs leaves the pass waiting inside `name`
Propagate(kind, name) ==
    /\ failedAt' = name
    /\ exc' = (IF kind = Hang THEN exc ELSE kind)
    /\ idx' = idx
    /\ IF kind = Hang
       THEN pc' = "blocked" /\ delay' = 0
       ELSE IF MainCatches(script, kind)
            THEN pc' = "sleep" /\ delay' = ErrorDelay(script)
            ELSE pc' = "stopped" /\ delay' = 0

\* collector `name` has run in the world e with result r
Returned(name, e, r) ==
    /\ invoked' = Append(invoked, name)
    /\ world' = e
    /\ events' = r.events
    /\ IF r.raises # "none"
       THEN Propagate(r.raises, name)
       ELSE /\ idx' = idx + 1
            /\ UNCHANGED <<exc, failedAt>>
            /\ IF idx < Len(Collectors(script))
               THEN UNCHANGED <<pc, delay>>
               ELSE pc' = "sleep" /\ delay' = Period(script)

AtCollector(s, name) ==
    /\ script = s
    /\ pc = "tick"
    /\ idx <= Len(Collectors(s))
    /\ Collectors(s)[idx] = name

GetDiskUsage(Envs) ==
    /\ AtCollector("disk-monitor", "get_disk_usage")
    /\ \E env \in Envs :
        /\ env.outcome # "ConnectionRefused"
        /\ Returned("get_disk_usage", env, get_disk_usage(env))
        /\ IF env.outcome = "ok"
           THEN total' = env.total /\ used' = env.used
           ELSE UNCHANGED diskVars
    /\ UNCHANGED <<sampleVars, script, sinkVars, backupVars>>

GetDiskUsageFixed(Envs) ==
    /\ AtCollector("disk-monitor-fixed", "get_disk_usage")
    /\ \E env \in Envs :
        /\ Returned("get_disk_usage", env, get_disk_usage_fixed(env))
        /\ IF env.outcome = "ok"
           THEN total' = env.total /\ used' = env.used
           ELSE UNCHANGED diskVars
    /\ UNCHANGED <<sampleVars, script, sinkVars, backupVars>>

\* 'time': int(time.time()) of the events of get_system_metrics:
\* send_to_riemann reads the clock in every call.  The first call comes
\* after cpu_percent(interval=1) has taken one second; the psutil.disk_usage
\* loop, which follows the cpu event and the three memory events, takes
\* `lag` seconds more.
EventTimes(evs, lag) == [k \in 1..Len(evs) |-> IF k <= 4 THEN 1 ELSE 1 + lag]

GetSystemMetrics ==
    /\ AtCollector("system-monitor", "get_system_metrics")
    /\ \E env \in SystemEnvs, lag \in {0, 1} :
        /\ Returned("get_system_metrics", env, get_system_metrics(env))
        /\ stamps' = EventTimes(get_system_metrics(env).events, lag)
    /\ UNCHANGED <<rawName, measurement, script, diskVars, sinkVars, backupVars>>

GetDockerMetrics ==
    /\ AtCollector("system-monitor", "get_docker_metrics")
    /\ \E env \in DockerEnvs : Returned("get_docker_metrics", env, get_docker_metrics(env))
    /\ UNCHANGED <<sampleVars, script, diskVars, sinkVars, backupVars>>

GetPostgresMetrics ==
    /\ AtCollector("system-monitor", "get_postgres_metrics")
    /\ \E env \in PostgresEnvs : Returned("get_postgres_metrics", env, get_postgres_metrics(env))
    /\ UNCHANGED <<sampleVars, script, diskVars, sinkVars, backupVars>>

GetAlfrescoMetrics ==
    /\ AtCollector("system-monitor", "get_alfresco_metrics")
    /\ \E env \in ProbeEnvs : Returned("get_alfresco_metrics", env, get_alfresco_metrics(env))
    /\ UNCHANGED <<sampleVars, script, diskVars, sinkVars, backupVars>>

MonitorOllama ==
    /\ AtCollector("graphrag-monitor", "monitor_ollama")
    /\ \E env \in OllamaEnvs : Returned("monitor_ollama", env, monitor_ollama(env))
    /\ UNCHANGED <<sampleVars, script, diskVars, sinkVars, backupVars>>

MonitorGraphrag ==
    /\ AtCollector("graphrag-monitor", "monitor_graphrag")
    /\ \E env \in ProbeEnvs : Returned("monitor_graphrag", env, monitor_graphrag(env))
    /\ UNCHANGED <<sampleVars, script, diskVars, sinkVars, backupVars>>

MonitorContainers ==
    /\ AtCollector("graphrag-monitor", "monitor_containers")
    /\ \E env \in ContainerEnvs : Returned("monitor_containers", env, monitor_containers(env))
    /\ UNCHANGED <<sampleVars, script, diskVars, sinkVars, backupVars>>

MonitorGpu ==
    /\ AtCollector("graphrag-monitor", "monitor_gpu")
    /\ \E env \in GpuEnvs : Returned("monitor_gpu", env, monitor_gpu(env))
    /\ UNCHANGED <<sampleVars, script, diskVars, sinkVars, backupVars>>

----------------------------------------------------------------------------
(* influxdb-bridge.py and monitor.py *)

MaxFailRun == 7
MaxNameLen == 3

\* The characters of the model's service names: a lower-case letter, an
\* upper-case letter, a digit, the two characters the cleaning replaces,
\* the underscore, and a character the cleaning removes.
Chars == {"a", "Z", "7", " ", "-", "_", "."}

\* str.isalnum for one character
isalnum(c) == c \in {"a", "Z", "7"}

\* str.replace(old, new) for single characters
Replace(s, old, new) == [i \in 1..Len(s) |-> IF s[i] = old THEN new ELSE s[i]]

KeepsHyphen(c) == isalnum(c) \/ c = "_" \/ c = "-"

\* the cleaning with hyphens allowed in the name and spaces turned into hyphens
sanitize_hyphenated(s) ==
    SelectSeq(Replace(Replace(s, "-", "_"), " ", "-"), KeepsHyphen)

Keeps(c) == isalnum(c) \/ c = "_"

\* riemann_event_to_influx_line, "Clean measurement name":
\*   measurement = service.replace(' ', '_').replace('-', '_')
\*   measurement = ''.join(c for c in measurement if c.isalnum() or c == '_')
sanitize(s) ==
    SelectSeq(Replace(Replace(s, " ", "_"), "-", "_"), Keeps)

\* riemann_event_to_influx_line: the fields of the line
\* "{measurement},host={host} value={metric} {int(timestamp * 1000000000)}"
riemann_event_to_influx_line(s, host, metric, timestamp) ==
    [measurement |-> sanitize(s), host |-> host, value |-> metric,
     time |-> timestamp * 1000000000]

\* the service names send_test_events passes, in the order of `lines`
LineNames == << <<"c", "p", "u">>, <<"m", "e", "m", "o", "r", "y">>, <<"l", "o", "a", "d">> >>
MaxIdle == 20

\* no send_to_influxdb call has been made since the pass sampled its metrics
NoCall == [posts |-> 0, ret |-> FALSE, raises |-> "none"]

\* send_to_influxdb, with the answer of requests.post in place of 204 only
\* on any 2xx status
send_to_influxdb_2xx(answer) ==
    [posts |-> 1,
     ret |-> (answer.error = "none" /\ answer.status >= 200 /\ answer.status < 300),
     raises |-> "none"]

\* send_to_influxdb(line): one requests.post with timeout=5; True on status
\* 204, False on any other status and on any exception of the request.
send_to_influxdb(answer) ==
    [posts |-> 1,
     ret |-> (answer.error = "none" /\ answer.status = 204),
     raises |-> "none"]

\* main of influxdb-bridge.py before the loop: GET /ping; any answer enters
\* the loop, an exception makes main return.
Ping ==
    /\ script = "influxdb-bridge"
    /\ pc = "startup"
    /\ \E answer \in HttpAnswers :
        /\ world' = [http |-> answer]
        /\ pc' = IF answer.error = "none" THEN "tick" ELSE "returned"
    /\ UNCHANGED <<sampleVars, script, idx, invoked, events, exc, delay, failedAt, diskVars, sinkVars, backupVars>>

\* send_test_events up to the list of lines: gethostname, time.time and the
\* three psutil readings, none of them inside a try.  timestamp = time.time()
\* is read before the first reading, cpu_percent(interval=1): 0 seconds
\* into the pass.
SampleMetrics ==
    /\ AtCollector("influxdb-bridge", "send_test_events")
    /\ line = 0
    /\ invoked' = Append(invoked, "send_test_events")
    /\ events' = << >>
    /\ sent' = NoCall
    /\ \E outcome \in {"ok", "Exception", Interrupt} :
        /\ world' = [outcome |-> outcome]
        /\ IF outcome = "ok"
           THEN LET lines == [i \in 1..3 |->
                        riemann_event_to_influx_line(LineNames[i], "hostname", <<42, 100>>, 0)] IN
                /\ line' = 1
                /\ rawName' = LineNames[3]
                /\ measurement' = lines[3].measurement
                /\ stamps' = [i \in 1..3 |-> lines[i].time]
                /\ UNCHANGED <<pc, idx, exc, delay, failedAt>>
           ELSE /\ Propagate(outcome, "send_test_events")
                /\ UNCHANGED <<line, sampleVars>>
    /\ UNCHANGED <<script, diskVars, posts, failRun, idle, backupVars>>

\* What a circuit breaker in front of the sink would call Open: the last 5
\* sends or more all failed and less than 10 seconds have passed since.
BreakerOpen == failRun >= 5 /\ idle < 10

\* the for loop of send_test_events with a circuit breaker in front of the sink
SendLineBreaker ==
    /\ script = "influxdb-bridge"
    /\ pc = "tick"
    /\ line \in 1..3
    /\ \E answer \in HttpAnswers :
        LET r == IF BreakerOpen THEN NoCall ELSE send_to_influxdb(answer) IN
        /\ r.ret \/ failRun < MaxFailRun
        /\ world' = [http |-> answer]
        /\ sent' = r
        /\ posts' = posts + r.posts
        /\ failRun' = IF r.ret THEN 0 ELSE failRun + 1
        /\ idle' = 0
    /\ IF line < 3
       THEN line' = line + 1 /\ UNCHANGED <<pc, idx, delay>>
       ELSE line' = 0 /\ idx' = idx + 1 /\ pc' = "sleep" /\ delay' = Period(script)
    /\ UNCHANGED <<sampleVars, script, invoked, events, exc, failedAt, diskVars, backupVars>>

\* One iteration of `for line in lines: send_to_influxdb(line)`; after the
\* third line send_test_events returns and main sleeps.
SendLine ==
    /\ script = "influxdb-bridge"
    /\ pc = "tick"
    /\ line \in 1..3
    /\ \E answer \in HttpAnswers :
        LET r == send_to_influxdb(answer) IN
        /\ r.ret \/ failRun < MaxFailRun
        /\ world' = [http |-> answer]
        /\ sent' = r
        /\ posts' = posts + r.posts
        /\ failRun' = IF r.ret THEN 0 ELSE failRun + 1
        /\ idle' = 0
    /\ IF line < 3
       THEN line' = line + 1 /\ UNCHANGED <<pc, idx, delay>>
       ELSE line' = 0 /\ idx' = idx + 1 /\ pc' = "sleep" /\ delay' = Period(script)
    /\ UNCHANGED <<sampleVars, script, invoked, events, exc, failedAt, diskVars, backupVars>>

\* The loop body of monitor.py: the psutil readings, time.time and one
\* requests.post (no timeout, status only printed) inside
\* try / except Exception; the sleep follows the try statement.
\* timestamp = int(time.time() * 1000000000) is read after
\* cpu_percent(interval=1) has taken its second, and goes into all three lines.
MonitorPass ==
    /\ AtCollector("monitor", "loop body")
    /\ \E outcome \in {"ok", "Exception", Interrupt}, answer \in HttpOutcomes \cup {Raised(Hang)} :
        /\ outcome # "ok" => answer = Raised(Interrupt)
        /\ LET raises == CASE outcome # "ok" -> outcome
                           [] answer.error = "none" -> "none"
                           [] answer.error \in {Interrupt, Hang} -> answer.error
                           [] OTHER -> "Exception" IN
           /\ Returned("loop body", [outcome |-> outcome, http |-> answer], Result(<< >>, raises))
           /\ posts' = IF outcome = "ok" THEN posts + 1 ELSE posts
           /\ stamps' = IF outcome = "ok" THEN [i \in 1..3 |-> 1 * 1000000000] ELSE << >>
    /\ UNCHANGED <<rawName, measurement, script, diskVars, line, sent, failRun, idle, backupVars>>

----------------------------------------------------------------------------
(* backup-data-forwarder.py *)

MaxTime == 600
MaxMetrics == 2
MaxErrors == 1

\* "WHERE time > now() - 10m", in seconds
Window == 600

\* endpoints_to_try, by position
WriteEndpoints == <<1, 2, 3>>

RECURSIVE SortDesc(_)
SortDesc(S) ==
    IF S = {} THEN << >>
    ELSE LET m == CHOOSE x \in S : \A y \in S : y <= x IN <<m>> \o SortDesc(S \ {m})

Range(seq) == {seq[i] : i \in 1..Len(seq)}

Min(a, b) == IF a <= b THEN a ELSE b

\* get_local_backup_metrics at time t: the points of the last 10 minutes,
\* newest first; [] when the query fails, answers another status than 200
\* or answers something that is not the expected JSON.
get_local_backup_metrics(answer, json, points, t) ==
    IF answer.error = "none" /\ answer.status = 200 /\ json = "ok"
    THEN SortDesc({m \in points : m > t - Window})
    ELSE << >>

\* send_to_external_influxdb has not been called in this pass
Idle ==
    [stage |-> "idle", contacted |-> << >>, accepted |-> 0, fallback |-> FALSE,
     annotations |-> 0, annotated |-> 0, ret |-> "none"]

\* Another process writes a backup point into the local InfluxDB just
\* before the query of a pass; the point is stamped with the current time
\* or, written late, with a time 5 minutes back.
WriteMetric ==
    /\ script = "backup-data-forwarder"
    /\ pc = "tick"
    /\ idx = 1
    /\ Cardinality(store) < MaxMetrics
    /\ \E stamp \in {now - 300, now} :
        /\ stamp \notin store
        /\ store' = store \cup {stamp}
    /\ UNCHANGED <<sampleVars, loopVars, diskVars, sinkVars, now, batch, fwd, delivered, again, tries, passes, errors>>

\* main: metrics = get_local_backup_metrics(); without metrics the pass
\* ends in time.sleep(300).
QueryLocal ==
    /\ AtCollector("backup-data-forwarder", "get_local_backup_metrics")
    /\ invoked' = Append(invoked, "get_local_backup_metrics")
    /\ \E answer \in HttpOutcomes, json \in {"ok", "invalid"} :
        /\ world' = [http |-> answer, json |-> json]
        /\ IF answer.error = Interrupt
           THEN /\ Propagate(Interrupt, "get_local_backup_metrics")
                /\ UNCHANGED <<batch, tries, passes>>
           ELSE LET metrics == get_local_backup_metrics(answer, json, store, now) IN
             /\ batch' = metrics
             /\ passes' = IF metrics = batch THEN passes + 1 ELSE 1
             /\ tries' = IF metrics = batch THEN tries ELSE 0
             /\ UNCHANGED <<exc, failedAt>>
             /\ IF metrics # << >>
                THEN idx' = idx + 1 /\ UNCHANGED <<pc, delay>>
                ELSE idx' = idx /\ pc' = "sleep" /\ delay' = Period(script)
    /\ fwd' = Idle
    /\ UNCHANGED <<sampleVars, script, events, diskVars, sinkVars, now, store, delivered, again, errors>>

\* send_to_external_influxdb up to the loop over the endpoints: an empty
\* list returns True at once (main never passes one); otherwise the lines
\* are built with create_line_protocol, which raises on a timestamp that
\* datetime.fromisoformat cannot read; the outer except then returns False.
EncodeLines ==
    /\ AtCollector("backup-data-forwarder", "send_to_external_influxdb")
    /\ fwd.stage = "idle"
    /\ invoked' = Append(invoked, "send_to_external_influxdb")
    /\ \E outcome \in {"ok", "ValueError"} :
        fwd' = IF batch = << >>
               THEN [fwd EXCEPT !.stage = "done", !.ret = "True"]
               ELSE IF outcome = "ok"
                    THEN [fwd EXCEPT !.stage = "write"]
                    ELSE [fwd EXCEPT !.stage = "done", !.ret = "False"]
    /\ UNCHANGED <<sampleVars, script, pc, idx, world, events, exc, delay, failedAt, diskVars, sinkVars,
                   now, store, batch, delivered, again, tries, passes, errors>>

\* the loop over the endpoints with a second round after the last endpoint failed
PostWriteRetrying ==
    /\ script = "backup-data-forwarder"
    /\ pc = "tick"
    /\ fwd.stage = "write"
    /\ LET e == (Len(fwd.contacted) % 3) + 1 IN
       \E answer \in HttpAnswers :
        /\ world' = [http |-> answer]
        /\ tries' = tries + 1
        /\ again' = again \cup {<<m, e>> : m \in {x \in Range(batch) : <<x, e>> \in delivered}}
        /\ IF answer.error = "none" /\ answer.status = 204
           THEN /\ delivered' = delivered \cup {<<m, e>> : m \in Range(batch)}
                /\ fwd' = [fwd EXCEPT !.contacted = Append(@, e), !.accepted = e,
                                      !.stage = "done", !.ret = "True"]
           ELSE /\ UNCHANGED delivered
                /\ fwd' = [fwd EXCEPT !.contacted = Append(@, e),
                                      !.stage = IF Len(fwd.contacted) < 5 THEN "write" ELSE "login",
                                      !.fallback = (Len(fwd.contacted) = 5)]
    /\ UNCHANGED <<sampleVars, script, pc, idx, invoked, events, exc, delay, failedAt, diskVars, sinkVars, now, store, batch, passes, errors>>

\* the loop over the endpoints without the try inside it: an exception of
\* requests.post reaches the function's own handler, which returns False
PostWriteNoInnerTry ==
    /\ script = "backup-data-forwarder"
    /\ pc = "tick"
    /\ fwd.stage = "write"
    /\ LET e == Len(fwd.contacted) + 1 IN
       \E answer \in HttpAnswers :
        /\ world' = [http |-> answer]
        /\ tries' = tries + 1
        /\ again' = again \cup {<<m, e>> : m \in {x \in Range(batch) : <<x, e>> \in delivered}}
        /\ IF answer.error = "none" /\ answer.status = 204
           THEN /\ delivered' = delivered \cup {<<m, e>> : m \in Range(batch)}
                /\ fwd' = [fwd EXCEPT !.contacted = Append(@, e), !.accepted = e,
                                      !.stage = "done", !.ret = "True"]
           ELSE /\ UNCHANGED delivered
                /\ fwd' = IF answer.error # "none"
                          THEN [fwd EXCEPT !.contacted = Append(@, e), !.stage = "done", !.ret = "False"]
                          ELSE [fwd EXCEPT !.contacted = Append(@, e),
                                           !.stage = IF e < 3 THEN "write" ELSE "login",
                                           !.fallback = (e = 3)]
    /\ UNCHANGED <<sampleVars, script, pc, idx, invoked, events, exc, delay, failedAt, diskVars, sinkVars, now, store, batch, passes, errors>>

\* One iteration of `for endpoint in endpoints_to_try`: a POST of the whole
\* payload with timeout=10; status 204 ends the loop with success, another
\* status or an exception goes on to the next endpoint; after the third
\* failure forward_via_grafana_api is called.
PostWrite ==
    /\ script = "backup-data-forwarder"
    /\ pc = "tick"
    /\ fwd.stage = "write"
    /\ LET e == Len(fwd.contacted) + 1 IN
       \E answer \in HttpAnswers :
        /\ world' = [http |-> answer]
        /\ tries' = tries + 1
        /\ again' = again \cup {<<m, e>> : m \in {x \in Range(batch) : <<x, e>> \in delivered}}
        /\ IF answer.error = "none" /\ answer.status = 204
           THEN /\ delivered' = delivered \cup {<<m, e>> : m \in Range(batch)}
                /\ fwd' = [fwd EXCEPT !.contacted = Append(@, e), !.accepted = e,
                                      !.stage = "done", !.ret = "True"]
           ELSE /\ UNCHANGED delivered
                /\ fwd' = [fwd EXCEPT !.contacted = Append(@, e),
                                      !.stage = IF e < 3 THEN "write" ELSE "login",
                                      !.fallback = (e = 3)]
    /\ UNCHANGED <<sampleVars, script, pc, idx, invoked, events, exc, delay, failedAt, diskVars, sinkVars, now, store, batch, passes, errors>>

\* forward_via_grafana_api, the login: an exception or a status other than
\* 200 returns False.
Login ==
    /\ script = "backup-data-forwarder"
    /\ pc = "tick"
    /\ fwd.stage = "login"
    /\ \E answer \in HttpAnswers :
        /\ world' = [http |-> answer]
        /\ fwd' = IF answer.error = "none" /\ answer.status = 200
                 THEN [fwd EXCEPT !.stage = "annotate"]
                 ELSE [fwd EXCEPT !.stage = "done", !.ret = "False"]
    /\ UNCHANGED <<sampleVars, script, pc, idx, invoked, events, exc, delay, failedAt, diskVars, sinkVars, now, store, batch, delivered, again, tries, passes, errors>>

\* forward_via_grafana_api, one iteration of `for metric in metrics[:5]`:
\* an exception returns False, any status goes on; after the last
\* annotation the function returns True.
Annotate ==
    /\ script = "backup-data-forwarder"
    /\ pc = "tick"
    /\ fwd.stage = "annotate"
    /\ \E answer \in HttpAnswers :
        /\ world' = [http |-> answer]
        /\ fwd' = IF answer.error # "none"
                 THEN [fwd EXCEPT !.stage = "done", !.ret = "False"]
                 ELSE [fwd EXCEPT !.annotations = @ + 1,
                                  !.annotated = IF answer.status = 200 THEN @ + 1 ELSE @,
                                  !.stage = IF fwd.annotations + 1 < Min(5, Len(batch)) THEN "annotate" ELSE "done",
                                  !.ret = IF fwd.annotations + 1 < Min(5, Len(batch)) THEN "none" ELSE "True"]
    /\ UNCHANGED <<sampleVars, script, pc, idx, invoked, events, exc, delay, failedAt, diskVars, sinkVars, now, store, batch, delivered, again, tries, passes, errors>>

\* main after send_to_external_influxdb returned: the result is printed and
\* the pass ends in time.sleep(300); a print that raises (a closed or
\* ASCII-only stdout) is caught by except Exception, which sleeps 60.
Forwarded ==
    /\ script = "backup-data-forwarder"
    /\ pc = "tick"
    /\ fwd.stage = "done"
    /\ \E outcome \in {"ok", "Exception"} :
        IF outcome = "ok"
        THEN /\ pc' = "sleep"
             /\ delay' = Period(script)
             /\ idx' = idx + 1
             /\ UNCHANGED <<exc, failedAt, errors>>
        ELSE /\ errors < MaxErrors
             /\ errors' = errors + 1
             /\ Propagate("Exception", "print")
    /\ fwd' = Idle
    /\ UNCHANGED <<sampleVars, script, invoked, world, events, diskVars, sinkVars,
                   now, store, batch, delivered, again, tries, passes>>

\* time.sleep(delay) returns: the next pass of `while True` begins.  (The
\* clock is kept for backup-data-forwarder.py, whose query depends on it;
\* the time its requests take is not counted, it only lengthens a period.)
WakeUp ==
    /\ pc = "sleep"
    /\ script = "backup-data-forwarder" => now + delay <= MaxTime
    /\ now' = IF script = "backup-data-forwarder" THEN now + delay ELSE now
    /\ pc' = "tick"
    /\ idx' = 1
    /\ invoked' = << >>
    /\ delay' = 0
    /\ exc' = "none"
    /\ failedAt' = ""
    /\ line' = 0
    /\ posts' = 0
    /\ idle' = IF idle + delay <= MaxIdle THEN idle + delay ELSE idle
    /\ stamps' = << >>
    /\ UNCHANGED <<rawName, measurement, script, world, events, diskVars, sent, failRun,
                   store, batch, fwd, delivered, again, tries, passes, errors>>

\* Ctrl-C during time.sleep: `break` where the sleep is inside the try,
\* otherwise the exception ends the process
InterruptSleep ==
    /\ pc = "sleep"
    /\ pc' = "stopped"
    /\ exc' = Interrupt
    /\ delay' = 0
    /\ UNCHANGED <<sampleVars, script, idx, invoked, world, events, failedAt, diskVars, sinkVars, backupVars>>

\* Ctrl-C while the pass waits in a call that hangs: subprocess.run and
\* requests.post raise KeyboardInterrupt, which ends the loop
InterruptCall ==
    /\ pc = "blocked"
    /\ pc' = "stopped"
    /\ exc' = Interrupt
    /\ UNCHANGED <<sampleVars, script, idx, invoked, world, events, delay, failedAt, diskVars, sinkVars, backupVars>>

InitLoop(scripts) ==
    /\ script \in scripts
    /\ pc = (IF script = "influxdb-bridge" THEN "startup" ELSE "tick")
    /\ line = 0
    /\ posts = 0
    /\ sent = NoCall
    /\ failRun = 0
    /\ idle = 0
    /\ now = 0
    /\ store = {}
    /\ batch = << >>
    /\ fwd = Idle
    /\ delivered = {}
    /\ again = {}
    /\ tries = 0
    /\ passes = 0
    /\ errors = 0
    /\ idx = 1
    /\ invoked = << >>
    /\ world = [outcome |-> "none"]
    /\ events = << >>
    /\ exc = "none"
    /\ delay = 0
    /\ failedAt = ""
    /\ total = 0
    /\ used = 0
    /\ stamps = << >>

Init ==
    /\ InitLoop(Scripts)
    /\ rawName = << >>
    /\ measurement = << >>

Next ==
    \/ GetDiskUsage(DiskEnvs({0, 10}, {0, 7, 8, 9, 10}))
    \/ GetDiskUsageFixed(DiskEnvs({0, 10}, {0, 7, 8, 9, 10}))
    \/ GetSystemMetrics
    \/ GetDockerMetrics
    \/ GetPostgresMetrics
    \/ GetAlfrescoMetrics
    \/ MonitorOllama
    \/ MonitorGraphrag
    \/ MonitorContainers
    \/ MonitorGpu
    \/ Ping
    \/ SampleMetrics
    \/ SendLine
    \/ MonitorPass
    \/ WriteMetric
    \/ QueryLocal
    \/ EncodeLines
    \/ PostWrite
    \/ Login
    \/ Annotate
    \/ Forwarded
    \/ WakeUp
    \/ InterruptSleep
    \/ InterruptCall

Spec == Init /\ [][Next]_vars

\* The two disk scripts alone, with disk sizes fine enough to tell 0.899
\* from 0.90.
WideUsed == {0, 1, 500, 999, 1000} \cup (785..905)

InitDisk ==
    /\ InitLoop({"disk-monitor", "disk-monitor-fixed"})
    /\ rawName = << >>
    /\ measurement = << >>

NextDisk ==
    \/ GetDiskUsage(DiskEnvs({0, 1000}, WideUsed))
    \/ GetDiskUsageFixed(DiskEnvs({0, 1000}, WideUsed))
    \/ WakeUp
    \/ InterruptSleep

SpecDisk == InitDisk /\ [][NextDisk]_vars

\* send_to_external_influxdb alone, called with every list of up to
\* MaxMetrics metrics, the empty list among them.
MetricLists == {SortDesc(S) : S \in {T \in SUBSET {0, 300, 600} : Cardinality(T) <= MaxMetrics}}

\* success = send_to_external_influxdb(metrics)
CallSend ==
    /\ script = "backup-data-forwarder"
    /\ pc = "tick"
    /\ idx = 1
    /\ idx' = 2
    /\ \E metrics \in MetricLists : batch' = metrics
    /\ UNCHANGED <<sampleVars, script, pc, invoked, world, events, exc, delay, failedAt, diskVars, sinkVars,
                   now, store, fwd, delivered, again, tries, passes, errors>>

InitSend ==
    /\ InitLoop({"backup-data-forwarder"})
    /\ rawName = << >>
    /\ measurement = << >>

NextSend ==
    \/ CallSend
    \/ EncodeLines
    \/ PostWrite
    \/ Login
    \/ Annotate
    \/ Forwarded

SpecSend == InitSend /\ [][NextSend]_vars

\* riemann_event_to_influx_line alone, called with every service name of
\* up to MaxNameLen characters and then with the name it returned.
Names == SeqsUpTo(Chars, MaxNameLen)

InitSanitize ==
    /\ InitLoop({"influxdb-bridge"})
    /\ rawName \in Names
    /\ measurement = << >>

\* one call of riemann_event_to_influx_line(service, host, metric, timestamp)
ConvertName ==
    /\ invoked = << >>
    /\ invoked' = <<"riemann_event_to_influx_line">>
    /\ measurement' = riemann_event_to_influx_line(rawName, "hostname", <<42, 100>>, 0).measurement
    /\ UNCHANGED <<script, pc, idx, world, events, exc, delay, failedAt, diskVars, sinkVars,
                   backupVars, rawName, stamps>>

\* a second call, with the measurement name of the first as its service
ConvertAgain ==
    /\ Len(invoked) = 1
    /\ invoked' = Append(invoked, "riemann_event_to_influx_line")
    /\ rawName' = measurement
    /\ measurement' = riemann_event_to_influx_line(measurement, "hostname", <<42, 100>>, 0).measurement
    /\ UNCHANGED <<script, pc, idx, world, events, exc, delay, failedAt, diskVars, sinkVars,
                   backupVars, stamps>>

NextSanitize ==
    \/ ConvertName
    \/ ConvertAgain

SpecSanitize == InitSanitize /\ [][NextSanitize]_vars

----------------------------------------------------------------------------
(* Properties *)

Last(seq) == seq[Len(seq)]

\* every event of evs is among the events of the last collector call
Emitted(evs) == \A k \in 1..Len(evs) : \E j \in 1..Len(events) : events[j] = evs[k]

\* the last collector call was `name` (and no later pass has begun)
JustRan(name) == Len(invoked) > 0 /\ Last(invoked) = name

Severity(state) == CASE state = "ok" -> 0 [] state = "warning" -> 1 [] state = "critical" -> 2

\* the last collector call sampled the disk and emitted the usage event
HasUsageEvent(evs) == Len(evs) >= 1 /\ evs[1].service = "disk.root.usage.percent"

\* C1, exactness: the usage event of get_disk_usage carries used/total (0
\* when total = 0) and its state is critical exactly when the usage is at
\* least 0.90, warning exactly when it is at least 0.80 and below 0.90, ok
\* exactly when it is below 0.80; 0.80 and 0.899 are warning, 0.90 is
\* critical, 0.79 is ok.
C1_Exact ==
    HasUsageEvent(events) =>
        LET e == events[1] IN
        /\ e.metric = (IF total > 0 THEN <<used, total>> ELSE <<0, 1>>)
        /\ e.state = "critical" <=> (total > 0 /\ 10 * used >= 9 * total)
        /\ e.state = "warning" <=> (total > 0 /\ 10 * used >= 8 * total /\ 10 * used < 9 * total)
        /\ e.state = "ok" <=> (total = 0 \/ 10 * used < 8 * total)
        /\ (total = 1000 /\ used = 800) => e.state = "warning"
        /\ (total = 1000 /\ used = 899) => e.state = "warning"
        /\ (total = 1000 /\ used = 900) => e.state = "critical"
        /\ (total = 1000 /\ used = 790) => e.state = "ok"

\* C1, monotonicity: of two successive samples, the one with the larger
\* usage never has the less severe state.
C1_Monotonic ==
    (HasUsageEvent(events) /\ HasUsageEvent(events') /\ FracGeq(events'[1].metric, events[1].metric))
        => Severity(events'[1].state) >= Severity(events[1].state)

\* C1: in disk-monitor.py and in disk-monitor-fixed.py the disk state is
\* exact at the boundaries 0.80 and 0.90 and monotonic in the usage.
C1_Classification == []C1_Exact /\ [][C1_Monotonic]_vars

C1_Witness ==
    /\ HasUsageEvent(events)
    /\ total = 1000
    /\ used = 899
    /\ events[1].state = "warning"
    /\ script = "disk-monitor-fixed"

\* C3: when a pass of the loop of system-monitor.py or graphrag-monitor.py
\* is over and the loop sleeps, every collector of the pass has been
\* invoked, whatever failed inside one of them.
C3_OthersStillInvoked ==
    (script \in {"system-monitor", "graphrag-monitor"} /\ pc = "sleep")
        => invoked = Collectors(script)

Probes == {"monitor_ollama", "monitor_graphrag", "get_alfresco_metrics"}

StatusService(name) ==
    CASE name = "monitor_ollama" -> "ollama status"
      [] name = "monitor_graphrag" -> "graphrag status"
      [] name = "get_alfresco_metrics" -> "alfresco status"

\* C7: a service-health probe whose HTTP request raised has emitted the
\* status event of its service with metric 0 and state critical.
C7_ConnectionFailureCritical ==
    \A name \in Probes :
        (JustRan(name) /\ world.http.error \in HttpErrors)
            => Emitted(<< Ev(StatusService(name), <<0, 1>>, "critical") >>)

\* C8: every emitted event has a state among ok, warning, critical, unknown.
C8_StateInEnum ==
    \A j \in 1..Len(events) : events[j].state \in {"ok", "warning", "critical", "unknown"}

\* C10: when the external tool ran and printed rows, the samples of every
\* well-formed row are emitted, also when another row of the same output
\* does not parse.
C10_PartialBatch ==
    /\ (JustRan("monitor_containers") /\ world.stats = "ok") =>
            \A i \in 1..Len(world.rows) :
                world.rows[i] \in {"good", "goodMiB"} =>
                    Emitted(ContainerRowEvents(world.rows[i], StatsName(world.rows[i], i), world.reading))
    /\ (JustRan("monitor_gpu") /\ world.smi = "ok") =>
            \A i \in 1..Len(world.rows) :
                world.rows[i] \in {"good", "zeroTotal"} =>
                    Emitted(GpuRowEvents(world.rows[i], i, world.reading))

\* C2, state part: the process of a script has ended only by Ctrl-C, and an
\* exception that reached the loop has put it into the handler's
\* time.sleep of fixed length.
C2_StillRunning ==
    /\ pc = "stopped" => exc = Interrupt
    /\ exc = "Exception" => (pc = "sleep" /\ delay = ErrorDelay(script) /\ failedAt # "")

\* C2, step part: the sleep after a failed pass ends in the next pass of the
\* loop (or in Ctrl-C).
C2_NextPass ==
    (pc = "sleep" /\ exc = "Exception" /\ pc' # "sleep")
        => \/ pc' = "tick" /\ idx' = 1 /\ invoked' = << >>
           \/ pc' = "stopped" /\ exc' = Interrupt

\* C2: no exception but KeyboardInterrupt ends the loop of any script: a
\* failed pass is followed by a sleep of fixed length and the next pass.
C2_FailuresNeverEndLoop == []C2_StillRunning /\ [][C2_NextPass]_vars

C2_Witness ==
    /\ script = "system-monitor"
    /\ pc = "sleep"
    /\ exc = "Exception"
    /\ failedAt = "get_system_metrics"
    /\ delay = 30

C9_SinkContract ==
    (script = "influxdb-bridge" /\ sent # NoCall) =>
        /\ sent.posts = 1
        /\ sent.raises = "none"
        /\ sent.ret <=> (world.http.error = "none" /\ world.http.status = 204)

C9_Witness ==
    /\ script = "influxdb-bridge"
    /\ sent # NoCall
    /\ world.http = Response(200)
    /\ sent.ret = FALSE

\* C5: a backup metric that an external endpoint has accepted (status 204)
\* is in no later POST to that endpoint, whatever the sequence of passes of
\* backup-data-forwarder.py.
C5_NeverPostedAgain == again = {}

C11_NeverBlocked == pc # "blocked"

\* C12, state part: the measurement name a call of
\* riemann_event_to_influx_line returned is a fixed point of the cleaning,
\* and holds nothing but alphanumeric characters and underscores.
C12_CleanIsFixed ==
    /\ sanitize(measurement) = measurement
    /\ \A i \in 1..Len(measurement) : isalnum(measurement[i]) \/ measurement[i] = "_"

\* C12, step part: a call whose service is the measurement name of the
\* call before returns that name unchanged.
C12_SecondCallSame == (rawName' = measurement) => (measurement' = measurement)

\* C12: the cleaning of riemann_event_to_influx_line is idempotent,
\* sanitize(sanitize(s)) = sanitize(s) for every service name s.
C12_SanitizeIdempotent == []C12_CleanIsFixed /\ [][C12_SecondCallSame]_vars

C12_Witness ==
    /\ Len(invoked) = 2
    /\ rawName = <<"_", "a", "_">>
    /\ measurement = <<"_", "a", "_">>

\* collector number k of the pass has returned without raising and without
\* emitting anything, and the loop goes on: to the next collector, or after
\* the last one to the sleep that ends the pass
ReturnedEmpty(k) ==
    /\ events = << >>
    /\ exc = "none"
    /\ failedAt = ""
    /\ idx = k + 1
    /\ IF k < Len(Collectors(script))
       THEN pc = "tick" /\ Collectors(script)[idx] # Last(invoked)
       ELSE pc = "sleep" /\ delay = Period(script)

\* C13: when the docker, nvidia-smi or pg_isready executable is absent
\* (subprocess.run raises FileNotFoundError), the collector that called it
\* returns without raising and emits nothing, and the loop continues.
\* (Unless Ctrl-C has since ended the loop.)
C13_MissingToolNotFatal ==
    exc # Interrupt =>
        /\ (JustRan("get_docker_metrics") /\ world.ps = "missing") => ReturnedEmpty(2)
        /\ (JustRan("get_postgres_metrics") /\ world.isready = "missing") => ReturnedEmpty(3)
        /\ (JustRan("monitor_containers") /\ world.stats = "missing") => ReturnedEmpty(3)
        /\ (JustRan("monitor_gpu") /\ world.smi = "missing") => ReturnedEmpty(4)

C13_Witness ==
    /\ JustRan("monitor_gpu")
    /\ world.smi = "missing"
    /\ pc = "sleep"
    /\ invoked = Collectors("graphrag-monitor")

\* C14: the timestamps of the samples of one pass never decrease, are all
\* the same, and are the clock as it was when the pass began, before any
\* sampling work (0 seconds into the pass).
C14_ClockOncePerTick ==
    /\ \A i, j \in 1..Len(stamps) : i <= j => stamps[i] <= stamps[j]
    /\ \A i, j \in 1..Len(stamps) : stamps[i] = stamps[j]
    /\ \A i \in 1..Len(stamps) : stamps[i] = 0

\* the events of the last collector call that report the status of `name`
StatusEvents(name) == {j \in 1..Len(events) : events[j].service = StatusService(name)}

\* C15: a call of monitor_ollama, monitor_graphrag or get_alfresco_metrics
\* that was not cut short by Ctrl-C has emitted exactly one status event
\* of its service, so never status 1 and status 0 in the same pass.
C15_OneStatusEvent ==
    \A name \in Probes :
        (JustRan(name) /\ world.http.error # Interrupt) => Cardinality(StatusEvents(name)) = 1

\* C16, state part: the endpoints contacted so far are the first ones of
\* endpoints_to_try in their order; the endpoint that answered 204 is the
\* last one contacted and ends the call with True; the Grafana fallback is
\* entered exactly when all three have been contacted and none answered
\* 204; a call with an empty list has returned True with no request made.
C16_Contacted ==
    script = "backup-data-forwarder" =>
        /\ Len(fwd.contacted) <= Len(WriteEndpoints)
        /\ \A i \in 1..Len(fwd.contacted) : fwd.contacted[i] = WriteEndpoints[i]
        /\ fwd.accepted # 0 =>
                (fwd.accepted = Last(fwd.contacted) /\ fwd.stage = "done" /\ fwd.ret = "True")
        /\ fwd.fallback <=> (Len(fwd.contacted) = 3 /\ fwd.accepted = 0)
        /\ (fwd.stage \in {"login", "annotate"} \/ fwd.annotations > 0) => fwd.fallback
        /\ (batch = << >> /\ fwd.stage # "idle") =>
                fwd = [Idle EXCEPT !.stage = "done", !.ret = "True"]

\* C16, step part: a POST to a write endpoint is made only while none has
\* answered 204, goes to the next endpoint of the list, ends the loop when
\* the answer is 204, and on any other status and on a raised error moves
\* on to the next endpoint, after the third to the fallback.
C16_WriteStep ==
    (script = "backup-data-forwarder" /\ Len(fwd'.contacted) > Len(fwd.contacted)) =>
        /\ fwd.accepted = 0
        /\ batch # << >>
        /\ fwd'.contacted = Append(fwd.contacted, WriteEndpoints[Len(fwd.contacted) + 1])
        /\ IF world'.http = Response(204)
           THEN fwd'.accepted = Last(fwd'.contacted) /\ fwd'.stage = "done"
           ELSE /\ fwd'.accepted = 0
                /\ fwd'.stage = (IF Len(fwd'.contacted) < 3 THEN "write" ELSE "login")

C17_SuccessMeansAccepted ==
    (script = "backup-data-forwarder" /\ fwd.stage = "done" /\ fwd.ret = "True" /\ batch # << >>)
        => (fwd.accepted # 0 \/ fwd.annotated >= 1)

====
